---- MODULE Spec2Model ----
(***************************************************************************)
(* Decoders of the gobmp packages sr, bgp and base:                         *)
(*   UnmarshalSRLocalBlock, UnmarshalBGPOpenMessage (with the OpenMessage   *)
(*   queries GetCapabilities, Is4BytesASCapable, IsMultiLabelCapable) and   *)
(*   UnmarshalMSDTV.                                                        *)
(*                                                                          *)
(* A Go slice b is modelled by its backing array `arr` (a sequence of       *)
(* bytes, Len(arr) = cap(b)) and its length n = len(b) <= cap(b).  Go's     *)
(* b[i] is arr[i+1].  An index expression b[i] panics when i >= len(b); a   *)
(* slice expression b[lo:hi] panics when hi > cap(b) or lo > hi, and        *)
(* b[lo:] is b[lo:len(b)].                                                  *)
(*                                                                          *)
(* An optional Go value (a pointer, an error, a panic) is a sequence of     *)
(* length 0 (nil / none) or 1.                                              *)
(*                                                                          *)
(* The hex dump of the raw buffer written to the log (glog with             *)
(* tools.MessageHex) ranges over b[0:len(b)] and changes no result; the     *)
(* accesses recorded for a call are those of the decoder itself.            *)
(***************************************************************************)
EXTENDS Integers, Sequences, FiniteSets

VARIABLES kind, arr, n, called, ret, q4, qcaps, qml

vars == <<kind, arr, n, called, ret, q4, qcaps, qml>>

----------------------------------------------------------------------------
(* Bounds of the model *)

\* most optional parameters placed in a session-open buffer
MaxParams == 2
\* most bytes a session-open buffer (and its backing array) exceeds 29 by
MaxExtra == 2
\* longest local-block buffer
MaxLBLen == 5
\* longest MSD buffer
MaxMSDLen == 5

----------------------------------------------------------------------------
(* Go primitives *)

Byte == 0..255

None == <<>>
Some(x) == <<x>>

\* b[lo:hi] of the backing array a (0-based, hi exclusive)
Slice(a, lo, hi) == SubSeq(a, lo + 1, hi)

\* binary.BigEndian.Uint16 / Uint32 of a slice long enough.  A uint32 is kept
\* as its two 16-bit halves (value = hi * 2^16 + lo): the values from 2^31 up
\* are beyond the integers of the model checker.
Uint16(s) == s[1] * 256 + s[2]
Uint32(s) == [hi |-> s[1] * 256 + s[2], lo |-> s[3] * 256 + s[4]]

\* Go's conversions int16(uint16) and int32(uint32): two's complement
Int16(u) == IF u >= 32768 THEN u - 65536 ELSE u
Int32(u) == IF u.hi >= 32768 THEN (u.hi - 65536) * 65536 + u.lo
            ELSE u.hi * 65536 + u.lo

\* fmt.Errorf(format, args...)
Errorf(f, a) == [fmt |-> f, args |-> a]

\* a run-time panic of the Go runtime: index i (or slice bound i) against length l
Panic(w, i, l) == [what |-> w, idx |-> i, len |-> l]

\* what one call of a decoder did: the returned pointer and error, the panic
\* that ended it instead, the indices of the backing array it indexed or
\* sliced, and the region it handed to the nested TLV scanner
Outcome(o, e, pn, rd, sc) ==
    [obj |-> o, err |-> e, panic |-> pn, reads |-> rd, scanned |-> sc]

NotCalled == Outcome(None, None, None, {}, None)

----------------------------------------------------------------------------
(* The TLV scanner and the capability decoder.  UnmarshalBGPTLV,            *)
(* UnmarshalBGPCapability and UnmarshalSRLocalBlockTLV are called by the    *)
(* decoders below; they are modelled from the specification's TLV Scanner   *)
(* (4.2) and Capability set (3, 4.3): one type byte, one length byte, then  *)
(* that many value bytes, until the region is exhausted.                    *)

ErrTruncatedBuffer(req, rem) == Errorf("TruncatedBuffer", <<req, rem>>)
ErrMalformedTLV(len, rem) == Errorf("MalformedTLV", <<len, rem>>)

RECURSIVE ScanTLV(_)
ScanTLV(r) ==
    IF Len(r) = 0 THEN [tlvs |-> <<>>, err |-> None]
    ELSE IF Len(r) < 2 THEN [tlvs |-> <<>>, err |-> Some(ErrTruncatedBuffer(2, Len(r)))]
    ELSE IF 2 + r[2] > Len(r)
         THEN [tlvs |-> <<>>, err |-> Some(ErrMalformedTLV(r[2], Len(r) - 2))]
    ELSE LET rest == ScanTLV(SubSeq(r, 3 + r[2], Len(r)))
             tlv  == [Type |-> r[1], Length |-> r[2], Value |-> SubSeq(r, 3, 2 + r[2])]
         IN  IF rest.err # None THEN rest
             ELSE [tlvs |-> <<tlv>> \o rest.tlvs, err |-> None]

\* the optional-parameter region of a session-open message
UnmarshalBGPTLV(r) == ScanTLV(r)

\* the sub-TLV region of a local block
UnmarshalSRLocalBlockTLV(r) == ScanTLV(r)

\* the capability mapping of one type-2 parameter's value: capability code ->
\* raw value bytes (a code seen twice keeps its last value)
UnmarshalBGPCapability(v) ==
    LET s == ScanTLV(v)
        codes == {s.tlvs[i].Type : i \in DOMAIN s.tlvs}
        last(c) == CHOOSE i \in DOMAIN s.tlvs :
                      /\ s.tlvs[i].Type = c
                      /\ \A j \in DOMAIN s.tlvs : s.tlvs[j].Type = c => j <= i
    IN  IF s.err # None
        THEN [caps |-> <<>>, err |-> Some(Errorf("MalformedCapability", s.err[1].args))]
        ELSE [caps |-> [c \in codes |-> [Value |-> s.tlvs[last(c)].Value]], err |-> None]

----------------------------------------------------------------------------
(* package sr: UnmarshalSRLocalBlock *)

\* the same decoder without the skip of the reserved byte: the sub-TLV
\* region starts at offset 1
UnmarshalSRLocalBlockNoSkip(a, len) ==
    IF ~(0 < len)
    THEN Outcome(None, None, Some(Panic("index out of range", 0, len)), {}, None)
    ELSE LET region == Slice(a, 1, len)
             s == UnmarshalSRLocalBlockTLV(region)
             rd == 0 .. len - 1
         IN  IF s.err # None
             THEN Outcome(None, s.err, None, rd, Some(region))
             ELSE Outcome(Some([Flags |-> a[1], TLV |-> s.tlvs]), None, None, rd, Some(region))

UnmarshalSRLocalBlock(a, len) ==
    IF ~(0 < len)
    THEN \* lb.Flags = b[p] with p = 0
         Outcome(None, None, Some(Panic("index out of range", 0, len)), {}, None)
    ELSE IF 2 > len
    THEN \* b[p:] with p = 2
         Outcome(None, None, Some(Panic("slice bounds out of range", 2, len)), {0}, None)
    ELSE LET region == Slice(a, 2, len)
             s == UnmarshalSRLocalBlockTLV(region)
             rd == {0} \cup (2 .. len - 1)
         IN  IF s.err # None
             THEN Outcome(None, s.err, None, rd, Some(region))
             ELSE Outcome(Some([Flags |-> a[1], TLV |-> s.tlvs]), None, None, rd, Some(region))

----------------------------------------------------------------------------
(* package base: UnmarshalMSDTV *)

RECURSIVE MSDLoop(_, _, _, _, _)
MSDLoop(a, len, p, tvs, rd) ==
    IF ~(p < len) THEN Outcome(Some(tvs), None, None, rd, None)
    ELSE IF ~(p + 1 < len)
    THEN \* tv.Type = b[p] succeeded, tv.Value = b[p] with p = len(b)
         Outcome(None, None, Some(Panic("index out of range", p + 1, len)), rd \cup {p}, None)
    ELSE MSDLoop(a, len, p + 2, Append(tvs, [Type |-> a[p + 1], Value |-> a[p + 2]]),
                 rd \cup {p, p + 1})

UnmarshalMSDTV(a, len) == MSDLoop(a, len, 0, <<>>, {})

----------------------------------------------------------------------------
(* package bgp: UnmarshalBGPOpenMessage *)

BGPMinOpenMessageLength == 29

ErrOpenLength(len) == Errorf("BGP Open Message length %d is invalid", <<len>>)
ErrOpenType(t) == Errorf("invalid message type %d for BGP Open Message", <<t>>)
ErrOpenVersion(v) == Errorf("invalid message version %d for BGP Open Message", <<v>>)

\* the guard `len(b) < BGPMinOpenMessageLength`, and the same guard mistaken by one
TooShortOffByOne(len) == len < BGPMinOpenMessageLength - 1
TooShort(len) == len < BGPMinOpenMessageLength

\* the checks of the constant fields, in the order the code makes them: the
\* error returned and the indices read so far, or no error.  Length is read
\* from b[0:2] first.
CheckHeaderVersionFirst(a) ==
    IF a[4] # 4 THEN [err |-> Some(ErrOpenVersion(a[4])), reads |-> 0 .. 3]
    ELSE IF a[3] # 1 THEN [err |-> Some(ErrOpenType(a[3])), reads |-> 0 .. 3]
    ELSE [err |-> None, reads |-> 0 .. 3]
CheckHeader(a) ==
    IF a[3] # 1 THEN [err |-> Some(ErrOpenType(a[3])), reads |-> 0 .. 2]
    ELSE IF a[4] # 4 THEN [err |-> Some(ErrOpenVersion(a[4])), reads |-> 0 .. 3]
    ELSE [err |-> None, reads |-> 0 .. 3]

\* the fixed fields b[0:13] of a message whose constant fields passed
OpenFixedFields(a) ==
    [Length      |-> Int16(Uint16(Slice(a, 0, 2))),
     Type        |-> a[3],
     Version     |-> a[4],
     MyAS        |-> Uint16(Slice(a, 4, 6)),
     HoldTime    |-> Int16(Uint16(Slice(a, 6, 8))),
     BGPID       |-> Slice(a, 8, 12),
     OptParamLen |-> a[13]]

WithParams(m, tlvs) ==
    [Length |-> m.Length, Type |-> m.Type, Version |-> m.Version, MyAS |-> m.MyAS,
     HoldTime |-> m.HoldTime, BGPID |-> m.BGPID, OptParamLen |-> m.OptParamLen,
     OptionalParameters |-> tlvs]

\* The indices 0..12 are within len(b) once the length guard passed.  The
\* slice b[13 : 13+OptParamLen] is bounded by cap(b), not len(b).
UnmarshalBGPOpenMessage(a, len) ==
    IF TooShort(len) THEN Outcome(None, Some(ErrOpenLength(len)), None, {}, None)
    ELSE LET h == CheckHeader(a) IN
    IF h.err # None THEN Outcome(None, h.err, None, h.reads, None)
    ELSE LET m == OpenFixedFields(a)
             p == 13
             hi == p + m.OptParamLen
         IN
    IF m.OptParamLen = 0 THEN Outcome(Some(WithParams(m, <<>>)), None, None, 0 .. 12, None)
    ELSE IF hi > Len(a)
    THEN Outcome(None, None, Some(Panic("slice bounds out of range", hi, Len(a))),
                 0 .. 12, None)
    ELSE LET region == Slice(a, p, hi)
             s == UnmarshalBGPTLV(region)
         IN  IF s.err # None
             THEN Outcome(None, s.err, None, 0 .. (hi - 1), Some(region))
             ELSE Outcome(Some(WithParams(m, s.tlvs)), None, None, 0 .. (hi - 1), Some(region))

----------------------------------------------------------------------------
(* package bgp: the queries of an OpenMessage *)

RECURSIVE GetCapabilitiesFrom(_)
GetCapabilitiesFrom(ps) ==
    IF ps = <<>> THEN [caps |-> <<>>, err |-> Some(Errorf("not found", <<>>))]
    ELSE IF ps[1].Type # 2 THEN GetCapabilitiesFrom(Tail(ps))
    ELSE UnmarshalBGPCapability(ps[1].Value)

GetCapabilities(o) == GetCapabilitiesFrom(o.OptionalParameters)

\* the result (n, ok), or the panic of binary.BigEndian.Uint32 on a value
\* shorter than 4 bytes (it indexes b[3])
RECURSIVE Is4BytesASCapableFrom(_)
Is4BytesASCapableFrom(ps) ==
    IF ps = <<>> THEN [n |-> 0, ok |-> FALSE, panic |-> None]
    ELSE IF ps[1].Type # 2 THEN Is4BytesASCapableFrom(Tail(ps))
    ELSE LET c == UnmarshalBGPCapability(ps[1].Value) IN
         IF c.err # None THEN Is4BytesASCapableFrom(Tail(ps))
         ELSE IF 65 \notin DOMAIN c.caps THEN [n |-> 0, ok |-> FALSE, panic |-> None]
         ELSE LET v == c.caps[65].Value IN
              IF ~(3 < Len(v))
              THEN [n |-> 0, ok |-> FALSE,
                    panic |-> Some(Panic("index out of range", 3, Len(v)))]
              ELSE [n |-> Int32(Uint32(v)), ok |-> TRUE, panic |-> None]

Is4BytesASCapable(o) == Is4BytesASCapableFrom(o.OptionalParameters)

IsMultiLabelCapable(o) ==
    \E i \in DOMAIN o.OptionalParameters : o.OptionalParameters[i].Type = 8

----------------------------------------------------------------------------
(* The buffers the decoders are called with *)

Max(x, y) == IF x >= y THEN x ELSE y

\* s followed by zero bytes up to length total
Pad(s, total) == s \o [i \in 1 .. (total - Len(s)) |-> 0]

SeqsUpTo(S, k) == UNION {[1 .. m -> S] : m \in 0 .. k}

\* the 13 fixed bytes of a session-open message: length, type, version,
\* AS 65000, hold time 90, identifier 10.0.0.1, optional-parameter length
Header(len, t, v, opl) ==
    <<len \div 256, len % 256, t, v, 253, 232, 0, 90, 10, 0, 0, 1, opl>>

\* optional parameters: 4-byte-AS capabilities (AS 1, 2^31, 2^32 - 1), a
\* code-65 capability of 2 and of 5 bytes, a multiprotocol capability, a
\* capability parameter whose inner TLV is cut short, the multi-label
\* marker, and a parameter of another type
ParamCatalog ==
    { <<2, 6, 65, 4, 0, 0, 0, 1>>,
      <<2, 6, 65, 4, 128, 0, 0, 0>>,
      <<2, 6, 65, 4, 255, 255, 255, 255>>,
      <<2, 4, 65, 2, 0, 1>>,
      <<2, 7, 65, 5, 0, 0, 0, 1, 9>>,
      <<2, 6, 1, 4, 0, 1, 0, 1>>,
      <<2, 1, 65>>,
      <<8, 0>>,
      <<1, 2, 170, 187>> }

RECURSIVE Bodies(_)
Bodies(k) ==
    IF k = 0 THEN {<<>>}
    ELSE LET prev == Bodies(k - 1)
         IN  prev \cup {b \o q : b \in prev, q \in ParamCatalog}

FewBodies == {<<>>, <<2, 6, 65, 4, 0, 0, 0, 1>>}

\* well-formed headers: every body with its exact length declared, in a
\* buffer that holds it
OpenExact ==
    { LET len == Max(BGPMinOpenMessageLength, 13 + Len(body))
      IN  [arr |-> Pad(Header(len, 1, 4, Len(body)) \o body, len), n |-> len]
      : body \in Bodies(MaxParams) }

\* well-formed headers: every declared optional-parameter length, every
\* buffer length and capacity from 29 up
OpenAnyLen ==
    { [arr |-> Pad(Header(x[2], 1, 4, x[1]) \o x[4], x[3]), n |-> x[2]]
      : x \in { y \in Byte
                      \X (BGPMinOpenMessageLength .. BGPMinOpenMessageLength + MaxExtra)
                      \X (BGPMinOpenMessageLength .. BGPMinOpenMessageLength + MaxExtra)
                      \X FewBodies
                : y[2] <= y[3] } }

\* every type and version byte of a small set
OpenAnyHeader ==
    { [arr |-> Pad(Header(BGPMinOpenMessageLength, x[1], x[2], Len(x[3])) \o x[3],
                   BGPMinOpenMessageLength),
       n |-> BGPMinOpenMessageLength]
      : x \in {0, 1, 2, 4, 255} \X {0, 1, 3, 4, 5} \X FewBodies }

\* buffers shorter than the minimum, of a backing array that ends with the
\* buffer or goes on
OpenShort ==
    { [arr |-> SubSeq(Pad(Header(x[1], 1, 4, 8) \o <<2, 6, 65, 4, 0, 0, 0, 1>>,
                          BGPMinOpenMessageLength), 1, x[2]),
       n |-> x[1]]
      : x \in { y \in (0 .. BGPMinOpenMessageLength - 1) \X (0 .. BGPMinOpenMessageLength)
                : y[2] \in {y[1], BGPMinOpenMessageLength} } }

OpenInputs == OpenExact \cup OpenAnyLen \cup OpenAnyHeader \cup OpenShort

LBInputs == { [arr |-> s, n |-> Len(s)] : s \in SeqsUpTo({0, 1, 2}, MaxLBLen) }

MSDInputs == { [arr |-> s, n |-> Len(s)] : s \in SeqsUpTo({1, 2, 255}, MaxMSDLen) }

----------------------------------------------------------------------------
(* The state machine: one buffer, the decoder of its kind applied to it,    *)
(* then the queries applied to a decoded session-open message.              *)

Init ==
    /\ kind \in {"open", "lb", "msd"}
    /\ \E in \in (CASE kind = "open" -> OpenInputs
                    [] kind = "lb"   -> LBInputs
                    [] kind = "msd"  -> MSDInputs) :
          /\ arr = in.arr
          /\ n = in.n
    /\ called = FALSE
    /\ ret = NotCalled
    /\ q4 = None
    /\ qcaps = None
    /\ qml = None

DoUnmarshalBGPOpenMessage ==
    /\ kind = "open" /\ ~called
    /\ called' = TRUE
    /\ ret' = UnmarshalBGPOpenMessage(arr, n)
    /\ UNCHANGED <<kind, arr, n, q4, qcaps, qml>>

DoUnmarshalSRLocalBlock ==
    /\ kind = "lb" /\ ~called
    /\ called' = TRUE
    /\ ret' = UnmarshalSRLocalBlock(arr, n)
    /\ UNCHANGED <<kind, arr, n, q4, qcaps, qml>>

DoUnmarshalMSDTV ==
    /\ kind = "msd" /\ ~called
    /\ called' = TRUE
    /\ ret' = UnmarshalMSDTV(arr, n)
    /\ UNCHANGED <<kind, arr, n, q4, qcaps, qml>>

\* the decoded message the queries are methods of
HasMessage == kind = "open" /\ called /\ ret.obj # None

DoGetCapabilities ==
    /\ HasMessage /\ qcaps = None
    /\ qcaps' = Some(GetCapabilities(ret.obj[1]))
    /\ UNCHANGED <<kind, arr, n, called, ret, q4, qml>>

DoIs4BytesASCapable ==
    /\ HasMessage /\ q4 = None
    /\ q4' = Some(Is4BytesASCapable(ret.obj[1]))
    /\ UNCHANGED <<kind, arr, n, called, ret, qcaps, qml>>

DoIsMultiLabelCapable ==
    /\ HasMessage /\ qml = None
    /\ qml' = Some(IsMultiLabelCapable(ret.obj[1]))
    /\ UNCHANGED <<kind, arr, n, called, ret, q4, qcaps>>

Next ==
    \/ DoUnmarshalBGPOpenMessage
    \/ DoUnmarshalSRLocalBlock
    \/ DoUnmarshalMSDTV
    \/ DoGetCapabilities
    \/ DoIs4BytesASCapable
    \/ DoIsMultiLabelCapable

Spec == Init /\ [][Next]_vars

----------------------------------------------------------------------------
(* Properties *)

\* the optional-parameter length byte b[12] and the end of the region it declares
OptLen == arr[13]
OptEnd == 13 + OptLen

OpenCalled == kind = "open" /\ called
ValidHeader == n >= BGPMinOpenMessageLength /\ arr[3] = 1 /\ arr[4] = 4

\* C1: for len(b) >= 29 with type 1 and version 4, whatever b[12] is, the
\* decoder never reads or slices at an index >= len(b): the region scanned is
\* b[13 : 13+b[12]] only when 13 + b[12] <= len(b), and otherwise the call
\* returns an error.
C1_NeverReadsPastBuffer ==
    (OpenCalled /\ ValidHeader) =>
        /\ ret.panic = None
        /\ \A i \in ret.reads : i < n
        /\ ret.scanned # None =>
              /\ OptEnd <= n
              /\ ret.scanned = Some(Slice(arr, 13, OptEnd))
        /\ OptEnd > n => (ret.err # None /\ ret.obj = None)

\* C2: for len(b) < 29 the decoder returns an error and no message, and
\* reads no byte of b.
C2_ShortBufferRejected ==
    (OpenCalled /\ n < BGPMinOpenMessageLength) =>
        /\ ret.err = Some(ErrOpenLength(n))
        /\ ret.obj = None
        /\ ret.panic = None
        /\ ret.reads = {}
        /\ ret.scanned = None

C2_Witness ==
    /\ OpenCalled
    /\ n = BGPMinOpenMessageLength - 1
    /\ Len(arr) = BGPMinOpenMessageLength
    /\ ret.err # None

\* an error that carries the value x among its arguments
Names(e, x) == \E i \in DOMAIN e.args : e.args[i] = x

Params == ret.obj[1].OptionalParameters
Type2 == {i \in DOMAIN Params : Params[i].Type = 2}
Decodable == {i \in Type2 : UnmarshalBGPCapability(Params[i].Value).err = None}
FirstOf(S) == CHOOSE i \in S : \A j \in S : i <= j
FirstCaps == UnmarshalBGPCapability(Params[FirstOf(Decodable)].Value).caps

\* the non-negative integer x is the unsigned big-endian number of the 4 bytes v
IsUnsignedBE(x, v) ==
    /\ x >= 0
    /\ x \div 65536 = v[1] * 256 + v[2]
    /\ x % 65536 = v[3] * 256 + v[4]

\* C4: when the capability mapping holds code 65 with a 4-byte value V,
\* Is4BytesASCapable returns (n, true) with n the AS number that V encodes
\* big-endian, for every V up to 0xFFFFFFFF; without code 65, and without
\* any type-2 parameter, it returns (0, false).
C4_FourByteASNumber ==
    q4 # None =>
        /\ Type2 = {} => q4[1] = [n |-> 0, ok |-> FALSE, panic |-> None]
        /\ Decodable # {} =>
              /\ 65 \notin DOMAIN FirstCaps =>
                    q4[1] = [n |-> 0, ok |-> FALSE, panic |-> None]
              /\ (65 \in DOMAIN FirstCaps /\ Len(FirstCaps[65].Value) = 4) =>
                    /\ q4[1].ok /\ q4[1].panic = None
                    /\ IsUnsignedBE(q4[1].n, FirstCaps[65].Value)

\* C5: for an odd-length buffer UnmarshalMSDTV returns an error (with or
\* without the floor(len(b)/2) complete pairs); it never indexes b at
\* len(b) and never returns a nil error.
C5_OddMSDReported ==
    (kind = "msd" /\ called /\ n % 2 = 1) =>
        /\ ret.panic = None
        /\ ret.err # None
        /\ ret.obj # None =>
              ret.obj[1] = [i \in 1 .. (n \div 2) |->
                               [Type |-> arr[2 * i - 1], Value |-> arr[2 * i]]]

\* C6: for len(b) >= 2 with b[2:] accepted by the sub-TLV scanner, the
\* local block has Flags = b[0] and the records of a scan of exactly b[2:],
\* and the reserved byte b[1] does not change the result.
C6_LocalBlockDecoded ==
    (kind = "lb" /\ called /\ n >= 2
        /\ UnmarshalSRLocalBlockTLV(SubSeq(arr, 3, n)).err = None) =>
        /\ ret.err = None /\ ret.panic = None
        /\ ret.obj = Some([Flags |-> arr[1],
                           TLV |-> UnmarshalSRLocalBlockTLV(SubSeq(arr, 3, n)).tlvs])
        /\ \A r \in Byte :
              UnmarshalSRLocalBlock([arr EXCEPT ![2] = r], n).obj = ret.obj

C6_Witness ==
    /\ kind = "lb" /\ called
    /\ ret.obj # None
    /\ arr[1] = 1 /\ arr[2] # 0
    /\ Len(ret.obj[1].TLV) = 1
    /\ ret.obj[1].TLV[1].Value # <<>>

\* C7: a call of UnmarshalBGPOpenMessage or UnmarshalSRLocalBlock ends with
\* (object, no error) or with (no object, error), and with the nested
\* scan's error and no object when the nested scan fails.
C7_ObjectOrError ==
    (called /\ kind \in {"open", "lb"}) =>
        /\ ret.panic = None
        /\ \/ ret.obj # None /\ ret.err = None
           \/ ret.obj = None /\ ret.err # None
        /\ (ret.scanned # None /\ ScanTLV(ret.scanned[1]).err # None) =>
              (ret.obj = None /\ ret.err = ScanTLV(ret.scanned[1]).err)

\* C8: for a code-65 value that is not 4 bytes long Is4BytesASCapable reads
\* nothing beyond the value and does not return (n, true).
C8_OnlyFourByteValues ==
    (q4 # None /\ Decodable # {}) =>
        ((65 \in DOMAIN FirstCaps /\ Len(FirstCaps[65].Value) # 4) =>
            (q4[1].panic = None /\ ~q4[1].ok))

\* C9: for len(b) < 2 UnmarshalSRLocalBlock returns an error and no object,
\* without indexing an empty buffer and without slicing past the end.
C9_LocalBlockMinLength ==
    (kind = "lb" /\ called /\ n < 2) =>
        /\ ret.panic = None
        /\ ret.err # None
        /\ ret.obj = None

\* every code-65 value of every decodable type-2 parameter is 4 bytes long
AllAS4ValuesFourBytes ==
    \A i \in Decodable :
        LET c == UnmarshalBGPCapability(Params[i].Value).caps
        IN  65 \in DOMAIN c => Len(c[65].Value) = 4

\* C10: Is4BytesASCapable returns (n, true) exactly when GetCapabilities
\* returns, without error, a mapping that holds code 65 with the 4-byte
\* value encoding n.  Stated for the messages whose code-65 values are all
\* 4 bytes long, and with n read as the 32-bit pattern of the value.
C10_QueriesAgree ==
    (q4 # None /\ qcaps # None /\ AllAS4ValuesFourBytes) =>
        (q4[1].ok <=>
            /\ qcaps[1].err = None
            /\ 65 \in DOMAIN qcaps[1].caps
            /\ Len(qcaps[1].caps[65].Value) = 4
            /\ Int32(Uint32(qcaps[1].caps[65].Value)) = q4[1].n)

====
